---- MODULE Spec2Model ----
(***************************************************************************)
(* Interview Saathi backend (backend/app.py): the three Flask routes       *)
(* /api/health, /api/question and /api/analyze, handled one request at a   *)
(* time.  The external providers (generate_interview_question and          *)
(* analyze_interview_response of groq_logic) are black boxes: each call    *)
(* either returns some value or raises.                                    *)
(*                                                                         *)
(* Numbers: every score is an integer number of HUNDREDTHS, so 7.25 is     *)
(* 725 and the readiness 77.0 is 7700.  The weights 0.3/0.2 followed by    *)
(* the factor 10 are then the integer factors 3 and 2.                     *)
(***************************************************************************)
EXTENDS Integers, Sequences, FiniteSets, TLC

\* ---------------------------------------------------------------- bounds
MaxFillers == 10   \* longest filler_words list the provider returns
MaxOver    == 1    \* how far outside 0..10 a returned score may lie
MaxOrphans == 1    \* temporary files left behind by earlier requests

\* ------------------------------------------------------------- constants
Unit == 100                                   \* 1.0 in hundredths
DefaultScore == 5 * Unit                      \* analysis.get(key, 5)
DefaultRole == "Software Engineer"
DefaultQuestion == "Tell me about yourself."
MockTranscript == "This is a temporary test answer for debugging."
XpEarned == 50
MissingRole == "Missing 'role' in request body"
NoAudio == "No audio file provided"
AnalysisFailed == "Analysis failed: "

\* ------------------------------------------------------ input universes
Roles == {"Teacher"}
Questions == {"Why teaching?"}
ErrorTexts == {"connection error", "rate limit"}
NoneGetError == "'NoneType' object has no attribute 'get'"
Methods == {"GET", "POST"}

ScoreKeys == {"grammar_score", "structure_score", "professional_tone_score"}
EvalKeys == ScoreKeys \cup {"filler_words"}

\* scores the analysis provider may return: the integers around 0..10 and
\* one value with two decimals (a rounding tie for the readiness score)
ScoreValues == {Unit * i : i \in (0 - MaxOver)..(10 + MaxOver)} \cup {725}

FillerList(n) == [i \in 1..n |-> "um"]
FillerLists == {FillerList(n) : n \in 0..MaxFillers}

\* a Python dict: a function whose DOMAIN is the set of keys present
EvalDict(g, s, t, f, present) ==
    [k \in present |->
        CASE k = "grammar_score" -> g
          [] k = "structure_score" -> s
          [] k = "professional_tone_score" -> t
          [] OTHER -> f]

\* the values a key may take in a dict whose key set is present
ValuesOf(k, present, values, unused) ==
    IF k \in present THEN values ELSE {unused}

\* every dict over every subset of the four keys
EvalDicts ==
    UNION {
        {EvalDict(g, s, t, f, present) :
            g \in ValuesOf("grammar_score", present, ScoreValues, 0),
            s \in ValuesOf("structure_score", present, ScoreValues, 0),
            t \in ValuesOf("professional_tone_score", present, ScoreValues, 0),
            f \in ValuesOf("filler_words", present, FillerLists, <<>>)} :
        present \in SUBSET EvalKeys}

\* a value that is not a dict (None)
NoEvaluation == [isDict |-> FALSE, d |-> EvalDict(0, 0, 0, <<>>, {})]

\* what analyze_interview_response may return: a dict, or None
Evaluations ==
    {[isDict |-> TRUE, d |-> e] : e \in EvalDicts} \cup {NoEvaluation}

\* a dict over the keys role and question
FormDict(r, q, present) ==
    [k \in present |-> IF k = "role" THEN r ELSE q]

\* request.form of /api/analyze: the client sends both fields or neither
Forms ==
    {FormDict(r, q, present) :
        r \in Roles, q \in Questions, present \in {{}, {"role", "question"}}}

\* the body of /api/question as request.get_json() sees it
Bodies ==
    {[kind |-> "none", d |-> FormDict("", "", {})],
     [kind |-> "nonjson", d |-> FormDict("", "", {})],
     [kind |-> "object", d |-> FormDict("", "", {})],
     [kind |-> "object", d |-> FormDict("", "Why teaching?", {"question"})]}
    \cup {[kind |-> "object", d |-> FormDict(r, "", {"role"})] : r \in Roles}

NoBody == [kind |-> "none", d |-> FormDict("", "", {})]

VARIABLES
    pc,          \* position of the handler of the request being served
    route,       \* "", "health", "question" or "analyze"
    method,      \* HTTP method of the request
    hasAudio,    \* "audio" in request.files
    form,        \* request.form
    body,        \* request body of /api/question
    role,        \* local role
    question,    \* local question
    tmp_exists,  \* the file NamedTemporaryFile created is on disk
    tmp_bound,   \* tmp_path has been assigned
    orphans,     \* temporary files of earlier requests still on disk
    transcript,  \* local transcript
    analysis,    \* local analysis
    calls,       \* the provider calls made for this request, in order
    resp         \* the response of the request

vars == <<pc, route, method, hasAudio, form, body, role, question, tmp_exists,
          tmp_bound, orphans, transcript, analysis, calls, resp>>

NoResp == [status |-> 0, kind |-> "none"]


\* ------------------------------------------------------- pure functions
\* dict.get(key, default)
Get(d, k, default) == IF k \in DOMAIN d THEN d[k] ELSE default

\* Python max(a, b) and min(a, b) of two numbers
PyMax(a, b) == IF b > a THEN b ELSE a
PyMin(a, b) == IF b < a THEN b ELSE a

\* variant: a filler word costs 1.0 instead of 1.5
confidence_raw_unit_penalty(filler_count) ==
    PyMax(0, 10 * Unit - filler_count * 100)

\* confidence_raw = max(0, 10 - (filler_count * 1.5))
confidence_raw(filler_count) == PyMax(0, 10 * Unit - filler_count * 150)

\* confidence = min(10, confidence_raw)
confidence_of(filler_count) == PyMin(10 * Unit, confidence_raw(filler_count))

\* variant: the weights of structure and tone are exchanged
readiness_raw_swapped(grammar, structure, tone, confidence) ==
    (grammar * 3) + (structure * 2) + (tone * 3) + (confidence * 2)

\* ((grammar * 0.3) + (structure * 0.3) + (tone * 0.2) + (confidence * 0.2)) * 10
readiness_raw(grammar, structure, tone, confidence) ==
    (grammar * 3) + (structure * 3) + (tone * 2) + (confidence * 2)

\* variant: the readiness score is not clamped
readiness_unclamped(x) == x

\* min(100, max(0, readiness_score))
readiness_clamped(x) == PyMin(100 * Unit, PyMax(0, x))

\* round(x, 1): the nearest multiple of 0.1.  A value exactly halfway is a
\* binary float just above or just below the tie, so either neighbour can
\* be the result (round(66.75.., 1) = 66.8 but round(68.25.., 1) = 68.2).
Round1(x) ==
    LET r == x % 10
        lo == x - r
    IN  IF r < 5 THEN {lo}
        ELSE IF r > 5 THEN {lo + 10}
        ELSE {lo, lo + 10}

\* the local variables of step 3 of analyze, from the dict analysis
grammar_of(d) == Get(d, "grammar_score", DefaultScore)
\* variant: a missing structure_score counts as 0
structure_of_zero_default(d) == Get(d, "structure_score", 0)

structure_of(d) == Get(d, "structure_score", DefaultScore)
tone_of(d) == Get(d, "professional_tone_score", DefaultScore)
filler_count_of(d) == Len(Get(d, "filler_words", <<>>))

readiness_of(d) ==
    readiness_clamped(
        readiness_raw(grammar_of(d), structure_of(d), tone_of(d),
                      confidence_of(filler_count_of(d))))

\* ------------------------------------------------------------ responses
ErrorResponse(code, parts) ==
    [status |-> code, kind |-> "error", error |-> parts]

\* variant: the except clause answers with a fixed message
AnalyzeError_generic(text) == ErrorResponse(500, <<AnalysisFailed, "">>)

\* the 500 of the except clause of analyze
AnalyzeError(text) == ErrorResponse(500, <<AnalysisFailed, text>>)

\* an exception no handler catches: Flask answers 500 with its own page
Unhandled == [status |-> 500, kind |-> "unhandled"]

\* the JSON of the successful return of analyze
Report(t, d, conf, ready) ==
    [status |-> 200, kind |-> "report",
     transcript |-> t,
     grammar_score |-> grammar_of(d),
     structure_score |-> structure_of(d),
     professional_tone_score |-> tone_of(d),
     confidence_score |-> conf,
     filler_words |-> Get(d, "filler_words", <<>>),
     readiness_score |-> ready,
     xp_earned |-> XpEarned]

\* one entry of calls: the provider called, its arguments, and the text of
\* the exception it raised ("" when it returned)
AnalysisCall(t, r, q, e) ==
    [svc |-> "analysis", transcript |-> t, role |-> r, question |-> q,
     raised |-> e]
QuestionCall(r, e) ==
    [svc |-> "question", transcript |-> "", role |-> r, question |-> "",
     raised |-> e]

\* ----------------------------------------------------------------- Init
Init ==
    /\ pc = "idle"
    /\ route = ""
    /\ method = ""
    /\ hasAudio = FALSE
    /\ form = FormDict("", "", {})
    /\ body = NoBody
    /\ role = ""
    /\ question = ""
    /\ tmp_exists = FALSE
    /\ tmp_bound = FALSE
    /\ orphans = 0
    /\ transcript = ""
    /\ analysis = NoEvaluation
    /\ calls = << >>
    /\ resp = NoResp

\* -------------------------------------------------------- /api/health
health ==
    /\ pc = "idle"
    /\ pc' = "done"
    /\ route' = "health"
    /\ method' = "GET"
    /\ resp' = [status |-> 200, kind |-> "health"]
    /\ UNCHANGED <<hasAudio, form, body, role, question, tmp_exists,
                   tmp_bound, orphans, transcript, analysis, calls>>

\* ------------------------------------------------------ /api/question
\* variant: the route is registered for GET and POST
RouteAllows_any(m) == TRUE

\* the route is registered for POST only: Flask answers any other method
RouteAllows(m) == m = "POST"

\* not data or "role" not in data
role_missing(b) == b.kind # "object" \/ DOMAIN b.d = {} \/ "role" \notin DOMAIN b.d

get_question_not_allowed(m, b) ==
    /\ pc = "idle"
    /\ ~RouteAllows(m)
    /\ pc' = "done"
    /\ route' = "question"
    /\ method' = m
    /\ body' = b
    /\ resp' = [status |-> 405, kind |-> "routing"]
    /\ UNCHANGED <<hasAudio, form, role, question, tmp_exists, tmp_bound,
                   orphans, transcript, analysis, calls>>

\* request.get_json() on a body that is not declared as JSON: None in the
\* older Flask releases, 415 Unsupported Media Type in the newer ones
get_question_unsupported(m, b) ==
    /\ pc = "idle"
    /\ RouteAllows(m)
    /\ b.kind = "nonjson"
    /\ pc' = "done"
    /\ route' = "question"
    /\ method' = m
    /\ body' = b
    /\ resp' = [status |-> 415, kind |-> "routing"]
    /\ UNCHANGED <<hasAudio, form, role, question, tmp_exists, tmp_bound,
                   orphans, transcript, analysis, calls>>

get_question_missing(m, b) ==
    /\ pc = "idle"
    /\ RouteAllows(m)
    /\ role_missing(b)
    /\ pc' = "done"
    /\ route' = "question"
    /\ method' = m
    /\ body' = b
    /\ resp' = ErrorResponse(400, <<MissingRole>>)
    /\ UNCHANGED <<hasAudio, form, role, question, tmp_exists, tmp_bound,
                   orphans, transcript, analysis, calls>>

get_question_start(m, b) ==
    /\ pc = "idle"
    /\ RouteAllows(m)
    /\ ~role_missing(b)
    /\ pc' = "question_try"
    /\ route' = "question"
    /\ method' = m
    /\ body' = b
    /\ role' = b.d["role"]
    /\ UNCHANGED <<hasAudio, form, question, tmp_exists, tmp_bound, orphans,
                   transcript, analysis, calls, resp>>

get_question_returns(q) ==
    /\ pc = "question_try"
    /\ calls' = Append(calls, QuestionCall(role, ""))
    /\ resp' = [status |-> 200, kind |-> "question", question |-> q]
    /\ pc' = "done"
    /\ UNCHANGED <<route, method, hasAudio, form, body, role, question,
                   tmp_exists, tmp_bound, orphans, transcript, analysis>>

get_question_raises(e) ==
    /\ pc = "question_try"
    /\ calls' = Append(calls, QuestionCall(role, e))
    /\ resp' = ErrorResponse(500, <<e>>)
    /\ pc' = "done"
    /\ UNCHANGED <<route, method, hasAudio, form, body, role, question,
                   tmp_exists, tmp_bound, orphans, transcript, analysis>>

\* ------------------------------------------------------- /api/analyze
\* variant: the check for the audio part is dropped
audio_missing_unchecked(files_has_audio) == FALSE

\* "audio" not in request.files
audio_missing(files_has_audio) == ~files_has_audio

\* variant: the finally clause leaves the file in place
remove_if_exists_kept(exists) == exists

\* os.remove(tmp_path) under the guard os.path.exists(tmp_path)
remove_if_exists(exists) == IF exists THEN FALSE ELSE exists

analyze_no_audio(a, f) ==
    /\ pc = "idle"
    /\ audio_missing(a)
    /\ pc' = "done"
    /\ route' = "analyze"
    /\ method' = "POST"
    /\ hasAudio' = a
    /\ form' = f
    /\ resp' = ErrorResponse(400, <<NoAudio>>)
    /\ UNCHANGED <<body, role, question, tmp_exists, tmp_bound, orphans,
                   transcript, analysis, calls>>

\* lines 56-58: the form fields with their defaults
analyze_start(a, f) ==
    /\ pc = "idle"
    /\ ~audio_missing(a)
    /\ pc' = "with"
    /\ route' = "analyze"
    /\ method' = "POST"
    /\ hasAudio' = a
    /\ form' = f
    /\ role' = Get(f, "role", DefaultRole)
    /\ question' = Get(f, "question", DefaultQuestion)
    /\ UNCHANGED <<body, tmp_exists, tmp_bound, orphans, transcript,
                   analysis, calls, resp>>

\* tempfile.NamedTemporaryFile(suffix=".webm", delete=False) creates the file
analyze_create_tmp ==
    /\ pc = "with"
    /\ tmp_exists' = TRUE
    /\ pc' = "save"
    /\ UNCHANGED <<route, method, hasAudio, form, body, role, question,
                   tmp_bound, orphans, transcript, analysis, calls, resp>>

\* ... or raises (no usable temporary directory): nothing was created and
\* the exception leaves the handler
analyze_create_tmp_raises ==
    /\ pc = "with"
    /\ resp' = Unhandled
    /\ pc' = "done"
    /\ UNCHANGED <<route, method, hasAudio, form, body, role, question,
                   tmp_exists, tmp_bound, orphans, transcript, analysis,
                   calls>>

\* audio_file.save(tmp.name); tmp_path = tmp.name
analyze_save ==
    /\ pc = "save"
    /\ tmp_bound' = TRUE
    /\ pc' = "try"
    /\ UNCHANGED <<route, method, hasAudio, form, body, role, question,
                   tmp_exists, orphans, transcript, analysis, calls, resp>>

\* audio_file.save raises (disk full, broken upload stream): the with block
\* closes the file, which delete=False keeps, and the exception leaves the
\* handler before the try statement is entered
analyze_save_raises ==
    /\ pc = "save"
    /\ resp' = Unhandled
    /\ pc' = "done"
    /\ UNCHANGED <<route, method, hasAudio, form, body, role, question,
                   tmp_exists, tmp_bound, orphans, transcript, analysis,
                   calls>>

\* step 1 of the try block: the transcript is a fixed string
analyze_transcript ==
    /\ pc = "try"
    /\ transcript' = MockTranscript
    /\ pc' = "analyze"
    /\ UNCHANGED <<route, method, hasAudio, form, body, role, question,
                   tmp_exists, tmp_bound, orphans, analysis, calls, resp>>

\* steps 2 and 3: analyze_interview_response returns ev, then the scores
\* are computed and the response is built; a value without .get raises
\* into the except clause
analyze_returns(ev) ==
    /\ pc = "analyze"
    /\ calls' = Append(calls, AnalysisCall(transcript, role, question, ""))
    /\ analysis' = ev
    /\ IF ev.isDict
         THEN \E conf \in Round1(confidence_of(filler_count_of(ev.d))),
                 ready \in Round1(readiness_of(ev.d)) :
                 resp' = Report(transcript, ev.d, conf, ready)
         ELSE resp' = AnalyzeError(NoneGetError)
    /\ pc' = "finally"
    /\ UNCHANGED <<route, method, hasAudio, form, body, role, question,
                   tmp_exists, tmp_bound, orphans, transcript>>

\* step 2 raises: except Exception as e
analyze_raises(e) ==
    /\ pc = "analyze"
    /\ calls' = Append(calls, AnalysisCall(transcript, role, question, e))
    /\ resp' = AnalyzeError(e)
    /\ pc' = "finally"
    /\ UNCHANGED <<route, method, hasAudio, form, body, role, question,
                   tmp_exists, tmp_bound, orphans, transcript, analysis>>

\* finally: if os.path.exists(tmp_path): os.remove(tmp_path)
analyze_finally ==
    /\ pc = "finally"
    /\ tmp_exists' = remove_if_exists(tmp_exists)
    /\ pc' = "done"
    /\ UNCHANGED <<route, method, hasAudio, form, body, role, question,
                   tmp_bound, orphans, transcript, analysis, calls, resp>>

\* ------------------------------------------------------- the server loop
\* app.run serves the next request; the locals of the last one are gone,
\* a temporary file it left on disk stays there
next_request ==
    /\ pc = "done"
    /\ orphans + (IF tmp_exists THEN 1 ELSE 0) <= MaxOrphans
    /\ orphans' = orphans + (IF tmp_exists THEN 1 ELSE 0)
    /\ pc' = "idle"
    /\ route' = ""
    /\ method' = ""
    /\ hasAudio' = FALSE
    /\ form' = FormDict("", "", {})
    /\ body' = NoBody
    /\ role' = ""
    /\ question' = ""
    /\ tmp_exists' = FALSE
    /\ tmp_bound' = FALSE
    /\ transcript' = ""
    /\ analysis' = NoEvaluation
    /\ calls' = << >>
    /\ resp' = NoResp

Next ==
    \/ health
    \/ \E m \in Methods, b \in Bodies : get_question_not_allowed(m, b)
    \/ \E m \in Methods, b \in Bodies : get_question_unsupported(m, b)
    \/ \E m \in Methods, b \in Bodies : get_question_missing(m, b)
    \/ \E m \in Methods, b \in Bodies : get_question_start(m, b)
    \/ \E q \in Questions : get_question_returns(q)
    \/ \E e \in ErrorTexts : get_question_raises(e)
    \/ \E a \in BOOLEAN, f \in Forms : analyze_no_audio(a, f)
    \/ \E a \in BOOLEAN, f \in Forms : analyze_start(a, f)
    \/ analyze_create_tmp
    \/ analyze_create_tmp_raises
    \/ analyze_save
    \/ analyze_save_raises
    \/ analyze_transcript
    \/ pc = "analyze" /\ \E ev \in Evaluations : analyze_returns(ev)
    \/ \E e \in ErrorTexts : analyze_raises(e)
    \/ analyze_finally
    \/ next_request

Spec == Init /\ [][Next]_vars

\* ------------------------------------------------------------ properties
Served(r) == route = r /\ pc = "done"
Reported == route = "analyze" /\ pc \in {"finally", "done"} /\ resp.kind = "report"
InRange(v) == v \in {Unit * i : i \in 0..10}

\* C1: once the response of an /api/analyze request that reached the
\* analysis provider has been returned, the temporary file of the request
\* is not on disk, whether the provider returned or raised.
C1_TmpGoneAfterAnalysis ==
    (Served("analyze") /\ calls # << >>) => ~tmp_exists

C1_Witness ==
    /\ Served("analyze")
    /\ tmp_bound
    /\ Len(calls) = 1
    /\ calls[1].raised = "rate limit"
    /\ resp.status = 500
    /\ ~tmp_exists

\* C2: an /api/analyze request without an audio part is answered 400 with
\* an error payload, no provider is called and no temporary file is made.
C2_NoAudioIs400 ==
    (route = "analyze" /\ ~hasAudio) =>
        /\ pc = "done"
        /\ resp.status = 400
        /\ resp.kind = "error"
        /\ resp.error = <<NoAudio>>
        /\ calls = << >>
        /\ ~tmp_exists
        /\ ~tmp_bound

C2_Witness ==
    Served("analyze") /\ ~hasAudio /\ resp.status = 400 /\ orphans = 0

\* C3: in every successful /api/analyze response readiness_score is within
\* 0..100 and confidence_score within 0..10, whatever the provider returned.
C3_ScoresInRange ==
    Reported =>
        /\ resp.readiness_score >= 0
        /\ resp.readiness_score <= 100 * Unit
        /\ resp.confidence_score >= 0
        /\ resp.confidence_score <= 10 * Unit

C3_Witness ==
    /\ Reported
    /\ pc = "done"
    /\ resp.grammar_score > 10 * Unit
    /\ resp.structure_score > 10 * Unit
    /\ resp.professional_tone_score > 10 * Unit
    /\ resp.readiness_score = 100 * Unit

\* C4: the reported confidence is clamp(10 - 1.5 n, 0, 10) for a filler list
\* of length n: 10 for n = 0, 1.5 less per filler word, 0 from n = 7 on.
C4_Confidence ==
    Reported =>
        LET n == Len(resp.filler_words)
            x == 1000 - 150 * n
        IN  /\ resp.confidence_score =
                 (IF x < 0 THEN 0 ELSE IF x > 1000 THEN 1000 ELSE x)
            /\ (n = 0 => resp.confidence_score = 1000)
            /\ (n >= 7 => resp.confidence_score = 0)
            /\ (n < 7 => resp.confidence_score = 1000 - 150 * n)

C4_Witness ==
    Reported /\ pc = "done" /\ Len(resp.filler_words) = 10
        /\ resp.confidence_score = 0

\* C5: for integer grammar g, structure s, tone t in 0..10 and n filler
\* words, readiness_score is 3g + 3s + 2t + max(0, 20 - 3n); the outer
\* clamp leaves that value unchanged.
C5_Readiness ==
    (Reported /\ InRange(resp.grammar_score) /\ InRange(resp.structure_score)
        /\ InRange(resp.professional_tone_score)) =>
        LET n == Len(resp.filler_words)
            c2 == IF 20 - 3 * n > 0 THEN (20 - 3 * n) * Unit ELSE 0
            v == 3 * resp.grammar_score + 3 * resp.structure_score
                   + 2 * resp.professional_tone_score + c2
        IN  /\ resp.readiness_score = v
            /\ v >= 0
            /\ v <= 100 * Unit
            /\ (resp.grammar_score = 800 /\ resp.structure_score = 700
                  /\ resp.professional_tone_score = 900 /\ n = 2
                  => resp.readiness_score = 7700)
            /\ (resp.grammar_score = 1000 /\ resp.structure_score = 1000
                  /\ resp.professional_tone_score = 1000 /\ n = 0
                  => resp.readiness_score = 10000)

C5_Witness ==
    /\ Reported
    /\ pc = "done"
    /\ resp.grammar_score = 800
    /\ resp.structure_score = 700
    /\ resp.professional_tone_score = 900
    /\ Len(resp.filler_words) = 2
    /\ resp.readiness_score = 7700

\* C6: a score key absent from the evaluation counts as 5 and an absent
\* filler_words as the empty list, present keys keep their value; with all
\* four absent the response has sub-scores 5, confidence 10, readiness 60.0.
C6_Defaults ==
    Reported =>
        LET d == analysis.d
            g == IF "grammar_score" \in DOMAIN d THEN d["grammar_score"] ELSE 500
            s == IF "structure_score" \in DOMAIN d THEN d["structure_score"] ELSE 500
            t == IF "professional_tone_score" \in DOMAIN d
                   THEN d["professional_tone_score"] ELSE 500
            f == IF "filler_words" \in DOMAIN d THEN d["filler_words"] ELSE << >>
            c == IF 1000 - 150 * Len(f) > 0 THEN 1000 - 150 * Len(f) ELSE 0
            raw == 3 * g + 3 * s + 2 * t + 2 * c
            v == IF raw < 0 THEN 0 ELSE IF raw > 10000 THEN 10000 ELSE raw
        IN  /\ resp.grammar_score = g
            /\ resp.structure_score = s
            /\ resp.professional_tone_score = t
            /\ resp.filler_words = f
            /\ resp.confidence_score = c
            /\ resp.readiness_score - v <= 5
            /\ v - resp.readiness_score <= 5
            /\ (DOMAIN d = {} =>
                  /\ resp.grammar_score = 500
                  /\ resp.structure_score = 500
                  /\ resp.professional_tone_score = 500
                  /\ resp.confidence_score = 1000
                  /\ resp.readiness_score = 6000)

C6_Witness ==
    /\ Reported
    /\ pc = "done"
    /\ DOMAIN analysis.d = {}
    /\ resp.readiness_score = 6000

\* C7: one /api/analyze request calls the analysis provider at most once;
\* when the call raises, the request ends with 500 and an error payload
\* carrying the text of the exception, never with a report.
C7_NoRetry ==
    route = "analyze" =>
        /\ Len(calls) <= 1
        /\ \A i \in 1..Len(calls) : calls[i].svc = "analysis"
        /\ (pc \in {"finally", "done"} /\ calls # << >> /\ calls[1].raised # "" =>
              /\ resp.status = 500
              /\ resp.kind = "error"
              /\ resp.error = <<AnalysisFailed, calls[1].raised>>)

C7_Witness ==
    /\ Served("analyze")
    /\ Len(calls) = 1
    /\ calls[1].raised = "connection error"
    /\ resp.kind = "error"
    /\ resp.error = <<AnalysisFailed, "connection error">>

\* C8: in every successful /api/analyze request a transcription provider is
\* called before the analysis provider, and the transcript handed to the
\* analysis provider and returned in the response is its output.
C8_TranscriptFromProvider ==
    (Served("analyze") /\ resp.kind = "report") =>
        \E i \in 1..Len(calls) :
            /\ calls[i].svc = "transcription"
            /\ calls[i].transcript = resp.transcript
            /\ \A j \in 1..Len(calls) :
                 calls[j].svc = "analysis" =>
                     i < j /\ calls[j].transcript = calls[i].transcript

\* C9 as stated: the role of /api/question is optional and GET and POST
\* are served: every request reaches the question provider and ends with
\* {question} or with 500 and {error}.
C9_RoleOptional ==
    Served("question") =>
        /\ calls # << >>
        /\ \/ resp.kind = "question"
           \/ resp.status = 500 /\ resp.kind = "error"

\* C9 as amended: /api/question is served for POST only and the role is
\* required.  A request without a role never reaches the question provider,
\* and when it is a POST with a JSON object it ends with 400 and a fixed
\* error payload; another method is refused with 405; a request that
\* reaches the provider ends with {question} or with 500 and {error}.
C9_RoleRequired ==
    Served("question") =>
        /\ ("role" \notin DOMAIN body.d =>
              calls = << >> /\ resp.kind # "question")
        /\ (method = "POST" /\ body.kind = "object" /\ "role" \notin DOMAIN body.d =>
              /\ resp.status = 400
              /\ resp.kind = "error"
              /\ resp.error = <<MissingRole>>)
        /\ (method # "POST" => calls = << >> /\ resp.status = 405)
        /\ (calls # << >> =>
              /\ Len(calls) = 1
              /\ calls[1].svc = "question"
              /\ calls[1].role = body.d["role"]
              /\ \/ resp.status = 200 /\ resp.kind = "question"
                 \/ /\ resp.status = 500
                    /\ resp.kind = "error"
                    /\ resp.error = <<calls[1].raised>>)

C9_Witness ==
    /\ Served("question")
    /\ method = "POST"
    /\ body.kind = "object"
    /\ "role" \notin DOMAIN body.d
    /\ resp.status = 400
    /\ calls = << >>

\* C10: on every exit path of /api/analyze taken after the temporary file
\* was created, a failed save of the upload included, the file is removed
\* before the request ends.
C10_TmpRemovedOnEveryExit ==
    Served("analyze") => ~tmp_exists

====
